---- MODULE Spec2Model ----
(***************************************************************************)
(* Waveform lifecycle of Espruino (src/src/jswrap_waveform.c): start,      *)
(* stop, the idle poll and the kill hook, run against the utility timer's  *)
(* buffer tasks.  The utility timer (jstimer.c) is not part of the         *)
(* sources at hand; its three entry points and its interrupt-side steps    *)
(* are modelled from section 6 of the specification.                       *)
(*                                                                         *)
(* The software-interrupt driver of the nRF51 SDK (nrf_drv_swi.c) is a     *)
(* second, independent part: its variables and steps follow the waveform   *)
(* ones, and each part has a specification in which the other is idle.     *)
(***************************************************************************)
EXTENDS Integers, Sequences, FiniteSets, TLC

\* ------------------------------------------------------------------ bounds
NumWaveforms == 2
MaxTasks == 2
MaxFreq == 2

\* --------------------------------------------------------------- constants
Waveform == 1..NumWaveforms
\* jsvGetRef of "no variable"
NoBuffer == 0
\* a frequency for which isfinite() is false, kept apart from the finite ones
NonFinite == MaxFreq + 1
FreqInputs == 0..NonFinite
\* the options argument: undefined, an object {repeat:bool}, or anything else
OptionInputs ==
    { [kind |-> "undefined", repeat |-> FALSE],
      [kind |-> "object", repeat |-> FALSE],
      [kind |-> "object", repeat |-> TRUE],
      [kind |-> "other", repeat |-> FALSE] }

ErrAlreadyRunning == "Waveform is already running"
ErrInvalidPin == "Invalid pin"
ErrFrequency == "Frequency must be above 1Hz"
ErrOptions == "Expecting options to be undefined or an Object"
WarnSchedule == "Unable to schedule a timer"
ErrNotRunning == "Waveform is not running"
ErrStopFailed == "Waveform couldn't be stopped"

VARIABLES
    doubleBuffer,   \* [Waveform -> BOOLEAN]: buffer2 exists (set by the constructor)
    running,        \* [Waveform -> BOOLEAN]: the "running" child
    freq,           \* [Waveform -> 0..MaxFreq]: the "freq" child, 0 while unset
    currentBuffer,  \* [Waveform -> 0..1]: the "currentBuffer" child
    waveforms,      \* the hidden root array of active waveforms, in order
    tasks,          \* the utility timer's buffer tasks
    op,             \* the operation that made the last step
    errors,         \* jsError/jsWarn messages of the last step
    events,         \* jsiQueueObjectCallbacks calls of the last step, in order
    calls           \* calls into the utility timer (and the poll) of the last step

vars == <<doubleBuffer, running, freq, currentBuffer, waveforms, tasks,
          op, errors, events, calls>>

\* --------------------------------------------------------- sequence helpers
RemoveAt(s, i) == SubSeq(s, 1, i - 1) \o SubSeq(s, i + 1, Len(s))

Count(s, x) == Cardinality({i \in 1..Len(s) : s[i] = x})

InSeq(s, x) == \E i \in 1..Len(s) : s[i] = x

\* ------------------------------------------------------------ buffer lookup
\* The storage a waveform's slot resolves to: a reference per waveform and
\* slot, NoBuffer for a buffer2 that was never allocated.
jswrap_waveform_getBuffer(dbl, w, bufferNumber) ==
    IF bufferNumber = 0 THEN 2 * w - 1
    ELSE IF dbl[w] THEN 2 * w ELSE NoBuffer

\* ----------------------------------------------------- utility timer (spec)
\* The runner's buffer tasks are a collection of [currentBuffer, nextBuffer]
\* pairs; the interface names no order among them.
NoTask == [currentBuffer |-> NoBuffer, nextBuffer |-> NoBuffer]

TaskRefs(t, ref) == t.currentBuffer = ref \/ t.nextBuffer = ref

TaskMatches(tk, ref) == {t \in tk : TaskRefs(t, ref)}

\* queryTask: the task that still references the buffer, if any
jstGetLastBufferTimerTask(tk, ref) ==
    LET m == TaskMatches(tk, ref)
    IN IF m = {} THEN [found |-> FALSE, task |-> NoTask]
       ELSE [found |-> TRUE, task |-> CHOOSE t \in m : TRUE]

\* cancelTask: retires the task referencing the buffer; fails when there is
\* none, or when the runner cannot confirm the cancellation (canOk is false)
jstStopBufferTimerTask(tk, ref, canOk) ==
    LET m == TaskMatches(tk, ref)
    IN IF m = {} \/ ~canOk THEN [ok |-> FALSE, tasks |-> tk]
       ELSE [ok |-> TRUE, tasks |-> tk \ {CHOOSE t \in m : TRUE}]

\* scheduleTransfer: fails when no slot is free, or for any other reason of
\* the runner's (schedOk is false)
jstStartSignal(tk, buffer, repeatBuffer, schedOk) ==
    IF schedOk /\ Cardinality(tk) < MaxTasks
    THEN [ok |-> TRUE, tasks |-> tk \cup {[currentBuffer |-> buffer, nextBuffer |-> repeatBuffer]}]
    ELSE [ok |-> FALSE, tasks |-> tk]

\* ------------------------------------------------------ jswrap_waveform_idle
\* The state the poll reads and writes, as one record.
PollState(run, cur, wfs, evs, cls) ==
    [running |-> run, currentBuffer |-> cur, waveforms |-> wfs, events |-> evs, calls |-> cls]

\* a finish that queues the event and forgets the "running" child
idle_finish_keepsRunning(st, w) ==
    [st EXCEPT !.events = Append(@, [obj |-> w, name |-> "finish",
                                     arg |-> jswrap_waveform_getBuffer(doubleBuffer, w, 0)])]

\* the timer task is gone: queue "finish" with the primary buffer, clear running
idle_finish(st, w) ==
    [st EXCEPT !.events = Append(@, [obj |-> w, name |-> "finish",
                                     arg |-> jswrap_waveform_getBuffer(doubleBuffer, w, 0)]),
               !.running[w] = FALSE]

\* the comparison of line 70 with its two results exchanged
idle_currentBuffer_swapped(buffer, task) ==
    IF buffer = task.currentBuffer THEN 1 ELSE 0

\* which of the two buffers the task is on: 0 for the primary buffer's storage
idle_currentBuffer(buffer, task) ==
    IF buffer = task.currentBuffer THEN 0 ELSE 1

\* the task is still there: for a double-buffered task, queue "buffer" when the
\* buffer index has changed since it was last recorded
idle_buffer(st, w, buffer, task) ==
    IF task.nextBuffer # NoBuffer /\ task.nextBuffer # task.currentBuffer
    THEN LET cb == idle_currentBuffer(buffer, task)
         IN IF st.currentBuffer[w] # cb
            THEN [st EXCEPT !.currentBuffer[w] = cb,
                            !.events = Append(@, [obj |-> w, name |-> "buffer",
                                                  arg |-> jswrap_waveform_getBuffer(doubleBuffer, w, cb)])]
            ELSE st
    ELSE st

\* the loop body for one element of the array
idle_visit(tk, st, w) ==
    IF st.running[w]
    THEN LET buffer == jswrap_waveform_getBuffer(doubleBuffer, w, 0)
             q == jstGetLastBufferTimerTask(tk, buffer)
         IN IF ~q.found THEN idle_finish(st, w)
            ELSE idle_buffer(st, w, buffer, q.task)
    ELSE st

\* an iterator that moves on and never removes
idle_next_keeps(v, i, w) == [st |-> v, i |-> i + 1]

\* an iterator that removes and then moves on past the element that took the
\* removed one's place
idle_next_skips(v, i, w) ==
    IF ~v.running[w]
    THEN [st |-> [v EXCEPT !.waveforms = RemoveAt(@, i)], i |-> i + 1]
    ELSE [st |-> v, i |-> i + 1]

\* the end of the loop body: an element that is not running is removed and
\* the iterator stays on the element that took its place, else it moves on
idle_next(v, i, w) ==
    IF ~v.running[w]
    THEN [st |-> [v EXCEPT !.waveforms = RemoveAt(@, i)], i |-> i]
    ELSE [st |-> v, i |-> i + 1]

\* the loop over the array, from element i on
RECURSIVE idle_loop(_, _, _)
idle_loop(tk, st, i) ==
    IF i > Len(st.waveforms) THEN st
    ELSE LET w == st.waveforms[i]
             n == idle_next(idle_visit(tk, st, w), i, w)
         IN idle_loop(tk, n.st, n.i)

\* one poll pass
idle_pass(tk, st) ==
    idle_loop(tk, [st EXCEPT !.calls = @ \cup {<<"jswrap_waveform_idle", NoBuffer>>}], 1)

jswrap_waveform_idle ==
    LET r == idle_pass(tasks, PollState(running, currentBuffer, waveforms, <<>>, {}))
    IN /\ running' = r.running
       /\ currentBuffer' = r.currentBuffer
       /\ waveforms' = r.waveforms
       /\ events' = r.events
       /\ calls' = r.calls
       /\ errors' = {}
       /\ op' = [name |-> "idle", w |-> 0]
       /\ UNCHANGED <<doubleBuffer, freq, tasks>>

\* ------------------------------------------------------ jswrap_waveform_kill
\* canOk: the waveforms whose cancellation the runner confirms
RECURSIVE kill_loop(_, _, _, _, _)
kill_loop(tk, wfs, errs, cls, canOk) ==
    IF wfs = <<>> THEN [tasks |-> tk, waveforms |-> wfs, errors |-> errs, calls |-> cls]
    ELSE LET w == Head(wfs)
             buffer == jswrap_waveform_getBuffer(doubleBuffer, w, 0)
             r == jstStopBufferTimerTask(tk, buffer, w \in canOk)
         IN IF running[w]
            THEN kill_loop(r.tasks, Tail(wfs),
                           IF r.ok THEN errs ELSE errs \cup {ErrStopFailed},
                           cls \cup {<<"jstStopBufferTimerTask", buffer>>}, canOk)
            ELSE kill_loop(tk, Tail(wfs), errs, cls, canOk)

jswrap_waveform_kill(canOk) ==
    LET r == kill_loop(tasks, waveforms, {}, {}, canOk)
    IN /\ tasks' = r.tasks
       /\ waveforms' = r.waveforms
       /\ errors' = r.errors
       /\ calls' = r.calls
       /\ events' = <<>>
       /\ op' = [name |-> "kill", w |-> 0]
       /\ UNCHANGED <<doubleBuffer, running, freq, currentBuffer>>

\* ----------------------------------------------------- jswrap_waveform_start
\* a start that does not look at the "running" child
start_running_unchecked(w) == FALSE

\* the "running" child as read on entry
start_running(w) == running[w]

\* a frequency check that forgets isfinite
start_freqValid_finiteUnchecked(f) == f >= 1

\* isfinite(freq) && freq >= 1
start_freqValid(f) == f # NonFinite /\ f >= 1

\* options: repeat is read from an object; anything else but undefined is
\* reported and the start goes on without repeat.  The "time" option only
\* moves the start time handed to the timer, which has no part in this model.
start_options(options) ==
    IF options.kind = "object" THEN [repeat |-> options.repeat, errors |-> {}]
    ELSE IF options.kind # "undefined" THEN [repeat |-> FALSE, errors |-> {ErrOptions}]
    ELSE [repeat |-> FALSE, errors |-> {}]

\* a repeat that always goes on with the primary buffer
start_repeatBuffer_primary(repeat, buffer, buffer2) ==
    IF repeat THEN buffer ELSE NoBuffer

\* a start that goes on with buffer2 whenever there is one, repeating or not
start_repeatBuffer_always(repeat, buffer, buffer2) ==
    IF buffer2 # NoBuffer THEN buffer2 ELSE IF repeat THEN buffer ELSE NoBuffer

\* the buffer handed to the timer to go on with: repeat?(buffer2?buffer2:buffer):0
start_repeatBuffer(repeat, buffer, buffer2) ==
    IF repeat THEN (IF buffer2 # NoBuffer THEN buffer2 ELSE buffer) ELSE NoBuffer

\* what follows the call of jstStartSignal, whatever it returned
start_finish(w, f, r, optErrors) ==
    /\ tasks' = r.tasks
    /\ errors' = optErrors \cup (IF r.ok THEN {} ELSE {WarnSchedule})
    /\ running' = [running EXCEPT ![w] = TRUE]
    /\ freq' = [freq EXCEPT ![w] = f]
    /\ waveforms' = Append(waveforms, w)

jswrap_waveform_start(w, pinValid, f, options, schedOk, eventType) ==
    /\ op' = [name |-> "start", w |-> w]
    /\ events' = <<>>
    /\ UNCHANGED <<doubleBuffer, currentBuffer>>
    /\ IF start_running(w)
       THEN /\ errors' = {ErrAlreadyRunning}
            /\ calls' = {}
            /\ UNCHANGED <<running, freq, waveforms, tasks>>
       ELSE IF ~pinValid
       THEN /\ errors' = {ErrInvalidPin}
            /\ calls' = {}
            /\ UNCHANGED <<running, freq, waveforms, tasks>>
       ELSE IF ~start_freqValid(f)
       THEN /\ errors' = {ErrFrequency}
            /\ calls' = {}
            /\ UNCHANGED <<running, freq, waveforms, tasks>>
       ELSE LET o == start_options(options)
                buffer == jswrap_waveform_getBuffer(doubleBuffer, w, 0)
                buffer2 == jswrap_waveform_getBuffer(doubleBuffer, w, 1)
                rb == start_repeatBuffer(o.repeat, buffer, buffer2)
                r == jstStartSignal(tasks, buffer, rb, schedOk)
            IN /\ calls' = {<<"jstStartSignal", buffer, rb, eventType>>}
               /\ start_finish(w, f, r, o.errors)

jswrap_waveform_startOutput(w, pinValid, f, options, schedOk) ==
    jswrap_waveform_start(w, pinValid, f, options, schedOk, "UET_WRITE_BYTE")

\* analogOk: jshPinAnalog(pin) >= 0
jswrap_waveform_startInput(w, analogOk, pinValid, f, options, schedOk) ==
    IF ~analogOk
    THEN /\ op' = [name |-> "startInput", w |-> w]
         /\ errors' = {}
         /\ events' = <<>>
         /\ calls' = {}
         /\ UNCHANGED <<doubleBuffer, running, freq, currentBuffer, waveforms, tasks>>
    ELSE jswrap_waveform_start(w, pinValid, f, options, schedOk, "UET_READ_BYTE")

\* ------------------------------------------------------ jswrap_waveform_stop
\* a stop that does not look at the "running" child
stop_running_unchecked(w) == TRUE

\* the "running" child as read on entry
stop_running(w) == running[w]

\* a stop that leaves the clean-up to the next tick
stop_idle_deferred(tk, st) == st

\* "now run idle loop as this will issue the finish event and will clean up"
stop_idle(tk, st) == idle_pass(tk, st)

\* canOk: the runner confirms the cancellation (when it holds a task at all)
jswrap_waveform_stop(w, canOk) ==
    /\ op' = [name |-> "stop", w |-> w]
    /\ UNCHANGED <<doubleBuffer, freq>>
    /\ IF ~stop_running(w)
       THEN /\ errors' = {ErrNotRunning}
            /\ events' = <<>>
            /\ calls' = {}
            /\ UNCHANGED <<running, currentBuffer, waveforms, tasks>>
       ELSE LET buffer == jswrap_waveform_getBuffer(doubleBuffer, w, 0)
                r == jstStopBufferTimerTask(tasks, buffer, canOk)
                p == stop_idle(r.tasks, PollState(running, currentBuffer, waveforms, <<>>,
                                                  {<<"jstStopBufferTimerTask", buffer>>}))
            IN /\ tasks' = r.tasks
               /\ errors' = (IF r.ok THEN {} ELSE {ErrStopFailed})
               /\ running' = p.running
               /\ currentBuffer' = p.currentBuffer
               /\ waveforms' = p.waveforms
               /\ events' = p.events
               /\ calls' = p.calls

\* ------------------------------------- utility timer, interrupt side (spec)
TimerStep ==
    /\ op' = [name |-> "timer", w |-> 0]
    /\ errors' = {}
    /\ events' = <<>>
    /\ calls' = {}
    /\ UNCHANGED <<doubleBuffer, running, freq, currentBuffer, waveforms>>

\* a one-shot task reaches the end of its buffer and retires
TimerTaskFinish(t) ==
    /\ t \in tasks
    /\ t.nextBuffer = NoBuffer
    /\ tasks' = tasks \ {t}
    /\ TimerStep

\* a repeating task with two buffers reaches the end of one and goes on with
\* the other
TimerBufferSwap(t) ==
    /\ t \in tasks
    /\ t.nextBuffer # NoBuffer
    /\ t.nextBuffer # t.currentBuffer
    /\ tasks' = (tasks \ {t}) \cup {[currentBuffer |-> t.nextBuffer,
                                      nextBuffer |-> t.currentBuffer]}
    /\ TimerStep

\* ============================================================ nrf_drv_swi.c
\* The software-interrupt driver of the nRF51 SDK.  Contexts call the driver;
\* each holds at most one line, in its own variable *p_swi.
NumContexts == 2
SWI_COUNT == 3
SWI_MAX_FLAGS == 2
SWI_MAX == 6

Context == 1..NumContexts
Line == 0..(SWI_COUNT - 1)
Flag == 0..(SWI_MAX_FLAGS - 1)
NULL == 0
NRF_SWI_UNALLOCATED == 255
NotInAlloc == 254

NRF_SUCCESS == "NRF_SUCCESS"
NRF_ERROR_NO_MEM == "NRF_ERROR_NO_MEM"
MODULE_ALREADY_INITIALIZED == "MODULE_ALREADY_INITIALIZED"
NoReturn == "void"

VARIABLES
    swiDisabled,     \* the lines the build configuration disables (SWI_DISABLEn)
    m_drv_state,     \* "UNINITIALIZED" or "INITIALIZED"
    m_swi_handlers,  \* array index -> the context whose handler is installed, or NULL
    m_swi_flags,     \* array index -> the flags set and not yet delivered
    irqEnabled,      \* line -> its interrupt is enabled in the NVIC
    irqPending,      \* line -> its interrupt is pending in the NVIC
    p_swi,           \* context -> the caller's *p_swi
    alloc_i,         \* context -> the loop variable of its alloc call, or NotInAlloc
    triggered,       \* line -> the flags triggered since the line was last allocated
    swi_op           \* the last step: [name, ctx, swi, ret, flags]

swi_vars == <<swiDisabled, m_drv_state, m_swi_handlers, m_swi_flags, irqEnabled,
              irqPending, p_swi, alloc_i, triggered, swi_op>>

SwiLog(name, ctx, swi, ret, flags) ==
    [name |-> name, ctx |-> ctx, swi |-> swi, ret |-> ret, flags |-> flags]

\* SWI_DISABLEn: 1 when the configuration disables line n or n is not below SWI_COUNT
SWI_DISABLE(d, n) == IF n \in d \/ n >= SWI_COUNT THEN 1 ELSE 0

\* SWI_DISABLE0 * ... * SWI_DISABLEk
RECURSIVE swi_disableProduct(_, _)
swi_disableProduct(d, k) ==
    IF k < 0 THEN 1 ELSE SWI_DISABLE(d, k) * swi_disableProduct(d, k - 1)

\* the sum of the products for 0..k
RECURSIVE swi_disableSum(_, _)
swi_disableSum(d, k) ==
    IF k < 0 THEN 0 ELSE swi_disableProduct(d, k) + swi_disableSum(d, k - 1)

\* the number of leading disabled lines
SWI_START_NUMBER(d) == swi_disableSum(d, SWI_MAX - 1)

SWI_ARRAY_SIZE(d) ==
    IF SWI_COUNT <= SWI_START_NUMBER(d) THEN 1 ELSE SWI_COUNT - SWI_START_NUMBER(d)

\* the mask of the lines that are not disabled, as the set of its bits
AVAILABLE_SWI(d) == {n \in 0..(SWI_MAX - 1) : SWI_DISABLE(d, n) = 0}

\* an allocation test that finds every line free
swi_is_allocated_never(d, handlers, swi) == FALSE

swi_is_allocated(d, handlers, swi) ==
    IF swi < SWI_START_NUMBER(d) THEN FALSE
    ELSE handlers[swi - SWI_START_NUMBER(d)] # NULL

\* nrf_drv_common_irq_enable: the line's interrupt is enabled; a pending
\* request is dropped or kept
nrf_drv_common_irq_enable(pend, swi, clearsPending) ==
    [pend EXCEPT ![swi] = IF clearsPending THEN FALSE ELSE @]

nrf_drv_swi_init ==
    /\ IF m_drv_state # "UNINITIALIZED"
       THEN /\ swi_op' = SwiLog("init", 0, NRF_SWI_UNALLOCATED, MODULE_ALREADY_INITIALIZED, {})
            /\ UNCHANGED m_drv_state
       ELSE /\ swi_op' = SwiLog("init", 0, NRF_SWI_UNALLOCATED, NRF_SUCCESS, {})
            /\ m_drv_state' = "INITIALIZED"
    /\ UNCHANGED <<swiDisabled, m_swi_handlers, m_swi_flags, irqEnabled, irqPending,
                   p_swi, alloc_i, triggered>>

\* Called on an initialized driver: every handler is cleared and every line
\* from SWI_START_NUMBER up has its interrupt disabled; m_swi_flags is left as
\* it is.  The callers drop the lines they held.
nrf_drv_swi_uninit ==
    /\ m_drv_state # "UNINITIALIZED"
    /\ \A c \in Context : alloc_i[c] = NotInAlloc
    /\ m_swi_handlers' = [k \in DOMAIN m_swi_handlers |->
                            IF k + SWI_START_NUMBER(swiDisabled) < SWI_COUNT
                            THEN NULL ELSE m_swi_handlers[k]]
    /\ irqEnabled' = [n \in Line |->
                        IF n >= SWI_START_NUMBER(swiDisabled) THEN FALSE ELSE irqEnabled[n]]
    /\ m_drv_state' = "UNINITIALIZED"
    /\ p_swi' = [c \in Context |-> NRF_SWI_UNALLOCATED]
    /\ swi_op' = SwiLog("uninit", 0, NRF_SWI_UNALLOCATED, NoReturn, {})
    /\ UNCHANGED <<swiDisabled, m_swi_flags, irqPending, alloc_i, triggered>>

nrf_drv_swi_free(c) ==
    LET swi == p_swi[c]
        k == swi - SWI_START_NUMBER(swiDisabled)
    IN /\ alloc_i[c] = NotInAlloc
       /\ swi \in Line
       /\ swi_is_allocated(swiDisabled, m_swi_handlers, swi)
       /\ irqEnabled' = [irqEnabled EXCEPT ![swi] = FALSE]
       /\ m_swi_handlers' = [m_swi_handlers EXCEPT ![k] = NULL]
       /\ p_swi' = [p_swi EXCEPT ![c] = NRF_SWI_UNALLOCATED]
       /\ swi_op' = SwiLog("free", c, swi, NoReturn, {})
       /\ UNCHANGED <<swiDisabled, m_drv_state, m_swi_flags, irqPending, alloc_i, triggered>>

\* nrf_drv_swi_alloc up to its loop: err_code = NRF_ERROR_NO_MEM, i = SWI_START_NUMBER
nrf_drv_swi_alloc_enter(c) ==
    /\ alloc_i[c] = NotInAlloc
    /\ p_swi[c] = NRF_SWI_UNALLOCATED
    /\ alloc_i' = [alloc_i EXCEPT ![c] = SWI_START_NUMBER(swiDisabled)]
    /\ swi_op' = SwiLog("alloc_enter", c, NRF_SWI_UNALLOCATED, NoReturn, {})
    /\ UNCHANGED <<swiDisabled, m_drv_state, m_swi_handlers, m_swi_flags, irqEnabled,
                   irqPending, p_swi, triggered>>

\* One pass of the loop body, a critical region: line i is taken when it is
\* free and available, and the call returns; else the loop goes on with the
\* next line, or returns NRF_ERROR_NO_MEM after the last one.
nrf_drv_swi_alloc_iteration(c, clearsPending) ==
    LET i == alloc_i[c]
        k == i - SWI_START_NUMBER(swiDisabled)
    IN /\ i # NotInAlloc
       /\ IF ~swi_is_allocated(swiDisabled, m_swi_handlers, i) /\ i \in AVAILABLE_SWI(swiDisabled)
          THEN /\ m_swi_handlers' = [m_swi_handlers EXCEPT ![k] = c]
               /\ p_swi' = [p_swi EXCEPT ![c] = i]
               /\ irqEnabled' = [irqEnabled EXCEPT ![i] = TRUE]
               /\ irqPending' = nrf_drv_common_irq_enable(irqPending, i, clearsPending)
               /\ triggered' = [triggered EXCEPT ![i] = {}]
               /\ alloc_i' = [alloc_i EXCEPT ![c] = NotInAlloc]
               /\ swi_op' = SwiLog("alloc", c, i, NRF_SUCCESS, {})
          ELSE /\ UNCHANGED <<m_swi_handlers, p_swi, irqEnabled, irqPending, triggered>>
               /\ IF i + 1 < SWI_COUNT
                  THEN /\ alloc_i' = [alloc_i EXCEPT ![c] = i + 1]
                       /\ swi_op' = SwiLog("alloc_next", c, i, NoReturn, {})
                  ELSE /\ alloc_i' = [alloc_i EXCEPT ![c] = NotInAlloc]
                       /\ swi_op' = SwiLog("alloc", c, NRF_SWI_UNALLOCATED, NRF_ERROR_NO_MEM, {})
       /\ UNCHANGED <<swiDisabled, m_drv_state, m_swi_flags>>

nrf_drv_swi_trigger(c, flag_number) ==
    LET swi == p_swi[c]
        k == swi - SWI_START_NUMBER(swiDisabled)
    IN /\ alloc_i[c] = NotInAlloc
       /\ swi \in Line
       /\ swi_is_allocated(swiDisabled, m_swi_handlers, swi)
       /\ flag_number < SWI_MAX_FLAGS
       /\ m_swi_flags' = [m_swi_flags EXCEPT ![k] = @ \cup {flag_number}]
       /\ irqPending' = [irqPending EXCEPT ![swi] = TRUE]
       /\ triggered' = [triggered EXCEPT ![swi] = @ \cup {flag_number}]
       /\ swi_op' = SwiLog("trigger", c, swi, NoReturn, {flag_number})
       /\ UNCHANGED <<swiDisabled, m_drv_state, m_swi_handlers, irqEnabled, p_swi, alloc_i>>

\* m_swi_flags &= ~flags, then the installed handler is called with flags
nrf_drv_swi_process(swi, flags) ==
    LET k == swi - SWI_START_NUMBER(swiDisabled)
    IN /\ m_swi_handlers[k] # NULL
       /\ m_swi_flags' = [m_swi_flags EXCEPT ![k] = @ \ flags]
       /\ swi_op' = SwiLog("handler", m_swi_handlers[k], swi, NoReturn, flags)

\* SWIn_IRQHandler, entered when the line's interrupt is pending and enabled
SWI_IRQHandler(n) ==
    /\ n \in AVAILABLE_SWI(swiDisabled)
    /\ irqPending[n]
    /\ irqEnabled[n]
    /\ irqPending' = [irqPending EXCEPT ![n] = FALSE]
    /\ nrf_drv_swi_process(n, m_swi_flags[n - SWI_START_NUMBER(swiDisabled)])
    /\ UNCHANGED <<swiDisabled, m_drv_state, m_swi_handlers, irqEnabled, p_swi, alloc_i, triggered>>

\* the driver before any call, for a configuration that disables the lines d
swi_Reset(d) ==
    /\ swiDisabled = d
    /\ m_drv_state = "UNINITIALIZED"
    /\ m_swi_handlers = [k \in 0..(SWI_ARRAY_SIZE(d) - 1) |-> NULL]
    /\ m_swi_flags = [k \in 0..(SWI_ARRAY_SIZE(d) - 1) |-> {}]
    /\ irqEnabled = [n \in Line |-> FALSE]
    /\ irqPending = [n \in Line |-> FALSE]
    /\ p_swi = [c \in Context |-> NRF_SWI_UNALLOCATED]
    /\ alloc_i = [c \in Context |-> NotInAlloc]
    /\ triggered = [n \in Line |-> {}]
    /\ swi_op = SwiLog("init", 0, NRF_SWI_UNALLOCATED, NoReturn, {})

\* every configuration that leaves at least one line available, beside a
\* waveform library that is never called
swi_Init ==
    /\ \E d \in (SUBSET Line) \ {Line} : swi_Reset(d)
    /\ doubleBuffer = [w \in Waveform |-> FALSE]
    /\ running = [w \in Waveform |-> FALSE]
    /\ freq = [w \in Waveform |-> 0]
    /\ currentBuffer = [w \in Waveform |-> 0]
    /\ waveforms = <<>>
    /\ tasks = {}
    /\ op = [name |-> "init", w |-> 0]
    /\ errors = {}
    /\ events = <<>>
    /\ calls = {}

swi_Next ==
    \/ nrf_drv_swi_init /\ UNCHANGED vars
    \/ nrf_drv_swi_uninit /\ UNCHANGED vars
    \/ \E c \in Context : nrf_drv_swi_alloc_enter(c) /\ UNCHANGED vars
    \/ \E c \in Context, clearsPending \in BOOLEAN : nrf_drv_swi_alloc_iteration(c, clearsPending) /\ UNCHANGED vars
    \/ \E c \in Context : nrf_drv_swi_free(c) /\ UNCHANGED vars
    \/ \E c \in Context, flag_number \in Flag : nrf_drv_swi_trigger(c, flag_number) /\ UNCHANGED vars
    \/ \E n \in Line : SWI_IRQHandler(n) /\ UNCHANGED vars

\* ------------------------------------------------------------ specification
\* Waveforms as jswrap_waveform_constructor leaves them, with or without a
\* second buffer; nothing is running and the timer holds no buffer task.  The
\* driver has not been called.
Init ==
    /\ doubleBuffer \in [Waveform -> BOOLEAN]
    /\ running = [w \in Waveform |-> FALSE]
    /\ freq = [w \in Waveform |-> 0]
    /\ currentBuffer = [w \in Waveform |-> 0]
    /\ waveforms = <<>>
    /\ tasks = {}
    /\ op = [name |-> "init", w |-> 0]
    /\ errors = {}
    /\ events = <<>>
    /\ calls = {}
    /\ swi_Reset({})

\* The arguments of a start.  Arguments that differ only in what a start reads
\* after the check that rejects it are the same call: an invalid pin comes
\* with one frequency, an invalid frequency with one options value.
StartInputs ==
    { a \in [pinValid : BOOLEAN, f : FreqInputs, options : OptionInputs, schedOk : BOOLEAN] :
        /\ ~a.pinValid => a.f = 1
        /\ (~a.pinValid \/ a.f = 0 \/ a.f = NonFinite) =>
              (a.options.kind = "undefined" /\ a.schedOk) }

Next ==
    \/ \E w \in Waveform, a \in StartInputs :
            jswrap_waveform_startOutput(w, a.pinValid, a.f, a.options, a.schedOk)
            /\ UNCHANGED swi_vars
    \/ \E w \in Waveform, a \in StartInputs :
            jswrap_waveform_startInput(w, TRUE, a.pinValid, a.f, a.options, a.schedOk)
            /\ UNCHANGED swi_vars
    \/ \E w \in Waveform :
            jswrap_waveform_startInput(w, FALSE, TRUE, 1, [kind |-> "undefined", repeat |-> FALSE], TRUE)
            /\ UNCHANGED swi_vars
    \/ \E w \in Waveform, canOk \in BOOLEAN : jswrap_waveform_stop(w, canOk) /\ UNCHANGED swi_vars
    \/ jswrap_waveform_idle /\ UNCHANGED swi_vars
    \/ \E canOk \in SUBSET Waveform : jswrap_waveform_kill(canOk) /\ UNCHANGED swi_vars
    \/ \E t \in tasks : TimerTaskFinish(t) /\ UNCHANGED swi_vars
    \/ \E t \in tasks : TimerBufferSwap(t) /\ UNCHANGED swi_vars

\* the waveform library, with the driver never called
Spec == Init /\ [][Next]_<<vars, swi_vars>>

\* the driver, for every configuration, with the waveform library never called
SpecSwi == swi_Init /\ [][swi_Next]_<<vars, swi_vars>>

\* ------------------------------------------------------------------ claims
Core == <<doubleBuffer, running, freq, currentBuffer, waveforms, tasks>>

Buffer(w) == jswrap_waveform_getBuffer(doubleBuffer, w, 0)

Buffer2(w) == jswrap_waveform_getBuffer(doubleBuffer, w, 1)

\* the runner holds a task that references the waveform's primary buffer
HoldsTask(tk, w) == \E t \in tk : t.currentBuffer = Buffer(w) \/ t.nextBuffer = Buffer(w)

\* how many events of a name a step queued for a waveform
Queued(evs, w, name) ==
    Cardinality({i \in 1..Len(evs) : evs[i].obj = w /\ evs[i].name = name})

PollMark == <<"jswrap_waveform_idle", NoBuffer>>

\* C1: a start that passes validation and whose scheduling fails leaves the
\* waveform with running=false and out of the active set, with only the
\* scheduling warning reported.
C1_SchedulingFailureLeavesUnstarted ==
    (op.name = "start" /\ errors = {WarnSchedule}) =>
        (~running[op.w] /\ ~InSeq(waveforms, op.w))

\* C2: a stop of a running waveform, whatever the cancellation returns, ends
\* with running=false, the waveform out of the active set and a "finish"
\* event queued for it.
C2_StopAlwaysFinishes ==
    [][(op'.name = "stop" /\ running[op'.w]) =>
          /\ ~running'[op'.w]
          /\ ~InSeq(waveforms', op'.w)
          /\ Queued(events', op'.w, "finish") >= 1]_vars

\* C3 as stated: a stop of a running waveform whose cancellation fails
\* reports the failure and leaves the waveform running, in the active set and
\* without a "finish" event, whether or not the runner holds a task for it.
C3_FailedStopLeavesRunning ==
    [][(op'.name = "stop" /\ running[op'.w] /\ ErrStopFailed \in errors') =>
          /\ running'[op'.w]
          /\ InSeq(waveforms', op'.w)
          /\ Queued(events', op'.w, "finish") = 0]_vars

\* C3 amended: a stop of a running waveform whose cancellation fails reports
\* the failure, leaves the runner's tasks as they were and still runs the poll
\* pass.  The waveform is left running, its membership of the active set as it
\* was and no "finish" queued, only if the runner still holds a task for its
\* primary buffer or the waveform is not in the active set; a member of the
\* active set whose task is gone ends with running=false, removed, and one
\* "finish" queued.
C3_FailedStopFollowsTask ==
    [][(op'.name = "stop" /\ running[op'.w] /\ ErrStopFailed \in errors') =>
          /\ errors' = {ErrStopFailed}
          /\ tasks' = tasks
          /\ PollMark \in calls'
          /\ IF InSeq(waveforms, op'.w) /\ ~HoldsTask(tasks, op'.w)
             THEN /\ ~running'[op'.w]
                  /\ ~InSeq(waveforms', op'.w)
                  /\ Queued(events', op'.w, "finish") = 1
             ELSE /\ running'[op'.w]
                  /\ Count(waveforms', op'.w) = Count(waveforms, op'.w)
                  /\ Queued(events', op'.w, "finish") = 0]_vars

\* a failed stop has left a waveform running and in the active set
C3_Witness ==
    /\ op.name = "stop"
    /\ errors = {ErrStopFailed}
    /\ running[op.w]
    /\ InSeq(waveforms, op.w)
    /\ HoldsTask(tasks, op.w)

\* C4: after the kill hook the active set is empty and no waveform has
\* running=true, whatever the cancellations returned.
C4_KillLeavesNothingRunning ==
    op.name = "kill" => (waveforms = <<>> /\ \A w \in Waveform : ~running[w])

\* C5: a start of a running waveform fails with AlreadyRunning and nothing
\* else happens: no call of jstStartSignal, no event, and running, freq,
\* currentBuffer, the active set and the runner's tasks are as they were.
C5_StartWhileRunningHasNoEffect ==
    [][(op'.name = "start" /\ running[op'.w]) =>
          /\ errors' = {ErrAlreadyRunning}
          /\ calls' = {}
          /\ events' = <<>>
          /\ UNCHANGED Core]_vars

\* a start was rejected for a waveform that is running and in the active set
C5_Witness ==
    /\ op.name = "start"
    /\ errors = {ErrAlreadyRunning}
    /\ running[op.w]
    /\ Count(waveforms, op.w) = 1
    /\ freq[op.w] = MaxFreq

\* C6: a stop of a waveform that is not running fails with NotRunning, calls
\* neither jstStopBufferTimerTask nor the poll, and changes nothing.
C6_StopWhileIdleHasNoEffect ==
    [][(op'.name = "stop" /\ ~running[op'.w]) =>
          /\ errors' = {ErrNotRunning}
          /\ calls' = {}
          /\ events' = <<>>
          /\ UNCHANGED Core]_vars

\* a stop was rejected while another waveform had a finished task that a poll
\* pass would have reported
C6_Witness ==
    /\ op.name = "stop"
    /\ errors = {ErrNotRunning}
    /\ \E v \in Waveform : running[v] /\ InSeq(waveforms, v) /\ ~HoldsTask(tasks, v)

\* the task the runner holds for the waveform's primary buffer
TaskOf(tk, w) ==
    CHOOSE t \in tk : t.currentBuffer = Buffer(w) \/ t.nextBuffer = Buffer(w)

\* a task that alternates between two different buffers
Alternates(t) == t.nextBuffer # NoBuffer /\ t.nextBuffer # t.currentBuffer

\* every event a step queued for a waveform under a name carries this argument
Carries(evs, w, name, arg) ==
    \A i \in 1..Len(evs) : (evs[i].obj = w /\ evs[i].name = name) => evs[i].arg = arg

\* C7: once the runner holds no task for the primary buffer of a running
\* member of the active set, the first poll pass (the idle hook's, or the one
\* a stop runs) sets running=false, queues exactly one "finish" carrying the
\* primary buffer and removes the waveform; a poll pass over a waveform that is
\* not running queues nothing for it and changes none of its state.  A
\* "finish" is queued only by the step that takes running from true to false,
\* and running becomes true only by a start: no start gets a second "finish".
C7_OneFinishPerStart ==
    [][\A w \in Waveform :
          /\ (PollMark \in calls' /\ InSeq(waveforms, w) /\ running[w] /\ ~HoldsTask(tasks', w)) =>
                /\ ~running'[w]
                /\ ~InSeq(waveforms', w)
                /\ Queued(events', w, "finish") = 1
                /\ Carries(events', w, "finish", Buffer(w))
                /\ Queued(events', w, "buffer") = 0
          /\ (PollMark \in calls' /\ ~running[w]) =>
                /\ Queued(events', w, "finish") = 0
                /\ Queued(events', w, "buffer") = 0
                /\ ~running'[w]
                /\ freq'[w] = freq[w]
                /\ currentBuffer'[w] = currentBuffer[w]
                /\ ~InSeq(waveforms', w)
          /\ Queued(events', w, "finish") <= 1
          /\ Queued(events', w, "finish") = 1 => (running[w] /\ ~running'[w])
          /\ (~running[w] /\ running'[w]) => (op'.name = "start" /\ op'.w = w)]_vars

\* the idle hook has found the task of a started waveform gone and queued its
\* "finish", the only event of the pass
C7_Witness ==
    /\ op.name = "idle"
    /\ \E w \in Waveform :
          /\ events = <<[obj |-> w, name |-> "finish", arg |-> Buffer(w)]>>
          /\ ~running[w]
          /\ ~InSeq(waveforms, w)
          /\ freq[w] # 0

C9_NeverTwiceInActiveSet ==
    [][\A w \in Waveform :
          /\ Count(waveforms', w) <= 1
          /\ (~running[w] /\ running'[w]) => Count(waveforms', w) = Count(waveforms, w) + 1
          /\ (running[w] /\ ~running'[w]) => Count(waveforms', w) = Count(waveforms, w) - 1]_vars

\* a waveform has been started again after an earlier session of its own (that
\* session recorded the second buffer), with every waveform in the active set
C9_Witness ==
    /\ op.name = "start"
    /\ errors = {}
    /\ currentBuffer[op.w] = 1
    /\ Len(waveforms) = NumWaveforms
    /\ \A w \in Waveform : Count(waveforms, w) = 1

C11_BadOptionsStartsNothing ==
    [][(op'.name = "start" /\ ErrOptions \in errors') =>
          /\ errors' = {ErrOptions}
          /\ calls' = {}
          /\ events' = <<>>
          /\ UNCHANGED Core]_vars

\* the step is a start of w with arguments a, through either entry point
StartStep(w, a) ==
    \/ jswrap_waveform_startOutput(w, a.pinValid, a.f, a.options, a.schedOk)
    \/ jswrap_waveform_startInput(w, TRUE, a.pinValid, a.f, a.options, a.schedOk)

\* the step is a startInput of w whose analog configuration of the pin failed
AnalogFailedStep(w) ==
    jswrap_waveform_startInput(w, FALSE, TRUE, 1, [kind |-> "undefined", repeat |-> FALSE], TRUE)

\* C12: a start of a waveform that is not running reports the pin error when
\* the pin is not valid and the frequency error when the pin is valid and the
\* frequency is not finite or below 1; either way nothing is handed to the
\* timer, no event is queued and no state changes.  A startInput whose analog
\* configuration fails returns before every check, with no error and no
\* effect, running or not.
C12_InvalidPinOrFrequency ==
    [][\A w \in Waveform :
          /\ (op'.name = "start" /\ op'.w = w /\ ~running[w]) =>
                \A a \in StartInputs :
                    StartStep(w, a) =>
                        /\ ~a.pinValid =>
                              (errors' = {ErrInvalidPin} /\ calls' = {} /\ events' = <<>> /\ UNCHANGED Core)
                        /\ (a.pinValid /\ (a.f = NonFinite \/ a.f < 1)) =>
                              (errors' = {ErrFrequency} /\ calls' = {} /\ events' = <<>> /\ UNCHANGED Core)
                        /\ (a.pinValid /\ a.f # NonFinite /\ a.f >= 1) =>
                              errors' \cap {ErrInvalidPin, ErrFrequency} = {}
          /\ AnalogFailedStep(w) =>
                (errors' = {} /\ calls' = {} /\ events' = <<>> /\ UNCHANGED Core)]_vars

\* a start of a waveform that is not running has been rejected for its
\* frequency
C12_Witness ==
    /\ op.name = "start"
    /\ errors = {ErrFrequency}
    /\ calls = {}
    /\ ~running[op.w]
    /\ freq[op.w] = 0

\* C13: the argument of every "buffer" event is the buffer the timer has just
\* finished with: the one its task was on before the switch (the task's next
\* buffer when the poll pass looks), never the one the task is on now.
C13_BufferEventCarriesFinishedBuffer ==
    \A i \in 1..Len(events) :
        events[i].name = "buffer" =>
            /\ HoldsTask(tasks, events[i].obj)
            /\ events[i].arg = TaskOf(tasks, events[i].obj).nextBuffer
            /\ events[i].arg # TaskOf(tasks, events[i].obj).currentBuffer

\* C14: a "buffer" event is queued only for a waveform with two buffers whose
\* task alternates between them, and such a task comes only from a repeating
\* start of a waveform with two buffers: the buffer a start hands the timer to
\* go on with is buffer2 when repeating with two buffers, the primary buffer
\* when repeating with one, and none when not repeating; the timer only swaps
\* the two buffers of a task, and a waveform that is not running has no task.
\* So a waveform started with one buffer, or not repeating, gets no "buffer"
\* event from any poll pass.
C14_BufferEventOnlyWhenAlternating ==
    [][/\ \A i \in 1..Len(events') :
              events'[i].name \in {"buffer", "finish"}
              /\ (events'[i].name = "buffer" =>
                     /\ doubleBuffer[events'[i].obj]
                     /\ \E t \in tasks' :
                           {t.currentBuffer, t.nextBuffer} =
                               {Buffer(events'[i].obj), Buffer2(events'[i].obj)})
       /\ \A w \in Waveform :
              /\ ~running'[w] => ~HoldsTask(tasks', w)
              /\ (op'.name = "start" /\ op'.w = w /\ ~running[w]) =>
                    \A a \in StartInputs :
                        StartStep(w, a) =>
                            LET repeat == a.options.kind = "object" /\ a.options.repeat
                                goesOn == IF ~repeat THEN NoBuffer
                                          ELSE IF doubleBuffer[w] THEN Buffer2(w)
                                          ELSE Buffer(w)
                            IN tasks' \ tasks \subseteq
                                   {[currentBuffer |-> Buffer(w), nextBuffer |-> goesOn]}
       /\ \A t \in tasks' \ tasks :
              \/ op'.name = "start"
              \/ /\ op'.name = "timer"
                 /\ [currentBuffer |-> t.nextBuffer, nextBuffer |-> t.currentBuffer] \in tasks \ tasks']_vars

\* the idle hook has polled a repeating waveform with one buffer and a
\* non-repeating waveform with two buffers (whose earlier session recorded the
\* second buffer) and queued nothing
C14_Witness ==
    /\ op.name = "idle"
    /\ events = <<>>
    /\ \E w, v \in Waveform :
          /\ ~doubleBuffer[w]
          /\ running[w]
          /\ [currentBuffer |-> Buffer(w), nextBuffer |-> Buffer(w)] \in tasks
          /\ doubleBuffer[v]
          /\ running[v]
          /\ currentBuffer[v] = 1
          /\ [currentBuffer |-> Buffer(v), nextBuffer |-> NoBuffer] \in tasks

\* the waveforms the events of a step were queued for, in queue order
EventObjs(evs) == [i \in 1..Len(evs) |-> evs[i].obj]

\* C15: a poll pass looks at each member of the active set once, also when it
\* removes members: the set it leaves is the set it found without the members
\* whose task is gone, the others in their order; each removed member has
\* exactly one "finish" queued, no member has more than one event, and the
\* events are queued in the order of the members.
C15_PollPassVisitsEachOnce ==
    [][(PollMark \in calls') =>
         (LET Stays(w) == running[w] /\ HoldsTask(tasks', w)
              HasEvent(w) == Queued(events', w, "finish") + Queued(events', w, "buffer") > 0
          IN /\ waveforms' = SelectSeq(waveforms, Stays)
             /\ EventObjs(events') = SelectSeq(waveforms, HasEvent)
             /\ \A w \in Waveform :
                   /\ (InSeq(waveforms, w) /\ running[w] /\ ~HoldsTask(tasks', w)) =>
                         (Queued(events', w, "finish") = 1 /\ ~running'[w])
                   /\ (InSeq(waveforms, w) /\ Stays(w)) =>
                         (Queued(events', w, "finish") = 0 /\ running'[w])
                   /\ ~InSeq(waveforms, w) =>
                         Queued(events', w, "finish") + Queued(events', w, "buffer") = 0)]_vars

\* the idle hook has found the tasks of two adjacent members gone, queued a
\* "finish" for each in their order and emptied the active set
C15_Witness ==
    /\ op.name = "idle"
    /\ waveforms = <<>>
    /\ Len(events) = 2
    /\ events[1].name = "finish"
    /\ events[2].name = "finish"
    /\ events[1].obj # events[2].obj

\* C17: at the end of every start, stop, poll pass and kill, every member of
\* the active set has running=true.
C17_MembersAreRunning ==
    \A i \in 1..Len(waveforms) : running[waveforms[i]]

\* a stop has cleared running of one member and removed it within the same
\* call, and left another, still running, in the active set
C17_Witness ==
    /\ op.name = "stop"
    /\ ~running[op.w]
    /\ Queued(events, op.w, "finish") = 1
    /\ Len(waveforms) = 1
    /\ waveforms[1] # op.w
    /\ running[waveforms[1]]

\* C18: the poll pass that directly follows a start (the timer has not run in
\* between, so it has not left the primary buffer) queues no "buffer" event
\* for the started waveform, whatever currentBuffer an earlier session left.
C18_NoBufferEventBeforeSwitch ==
    [][(op.name = "start" /\ errors = {} /\ PollMark \in calls') =>
          Queued(events', op.w, "buffer") = 0]_vars

\* the timer has gone on to the other buffer of a running member of the active
\* set and no poll pass has recorded it yet
SwitchUnrecorded(w) ==
    /\ running[w]
    /\ InSeq(waveforms, w)
    /\ HoldsTask(tasks, w)
    /\ Alternates(TaskOf(tasks, w))
    /\ currentBuffer[w] # (IF TaskOf(tasks, w).currentBuffer = Buffer(w) THEN 0 ELSE 1)

\* C16: no switch of buffer the timer makes for a running member of the
\* active set goes without its "buffer" event: once the timer has switched, the
\* switch stays unrecorded, whether poll passes are late or not, until a step
\* queues a "buffer" event for the waveform, or the waveform stops running or
\* leaves the active set.  (A switch that is dropped without an event is never
\* followed by its event, however often the idle hook polls afterwards.)
C16_EverySwitchNotified ==
    [][\A w \in Waveform :
          (SwitchUnrecorded(w) /\ running'[w] /\ InSeq(waveforms', w)) =>
              (SwitchUnrecorded(w)' \/ Queued(events', w, "buffer") > 0)]_vars

\* ---------------------------------------------------- claims, nrf_drv_swi.c
\* the lines of [SWI_START_NUMBER, SWI_COUNT) that are available and have no
\* handler in the table
FreeLines(handlers) ==
    {n \in Line : /\ n >= SWI_START_NUMBER(swiDisabled)
                  /\ n \in AVAILABLE_SWI(swiDisabled)
                  /\ ~swi_is_allocated(swiDisabled, handlers, n)}

\* no line is held by two contexts, and the table names the holder of each
\* line held
OneHolder(held, handlers) ==
    \A c \in Context :
        held[c] \in Line =>
            /\ held[c] >= SWI_START_NUMBER(swiDisabled)
            /\ handlers[held[c] - SWI_START_NUMBER(swiDisabled)] = c
            /\ \A e \in Context \ {c} : held[e] # held[c]

\* C19 as stated: whatever the interleaving, no line has two holders; an alloc
\* that succeeds returns the lowest line that is available and unallocated, and
\* an alloc returns NRF_ERROR_NO_MEM, with *p_swi and the handler table left
\* alone, exactly when no available line is unallocated.
C19_AllocReturnsLowestFreeLine ==
    [][/\ OneHolder(p_swi', m_swi_handlers')
       /\ (swi_op'.name = "alloc" /\ swi_op'.ret = NRF_SUCCESS) =>
             /\ swi_op'.swi \in FreeLines(m_swi_handlers)
             /\ \A n \in FreeLines(m_swi_handlers) : swi_op'.swi <= n
             /\ p_swi'[swi_op'.ctx] = swi_op'.swi
       /\ (swi_op'.name = "alloc" /\ swi_op'.ret = NRF_ERROR_NO_MEM) =>
             /\ FreeLines(m_swi_handlers) = {}
             /\ UNCHANGED <<p_swi, m_swi_handlers>>]_swi_vars

\* C19 amended: whatever the interleaving, no line has two holders.  Each pass
\* of alloc's loop tests one line inside the critical region, upwards from
\* SWI_START_NUMBER: when the line is available and unallocated the pass
\* installs the handler in its (empty) slot, stores the line in *p_swi and
\* alloc returns NRF_SUCCESS; when it is not, the pass leaves *p_swi and the
\* table alone and alloc goes on with the next line, or returns
\* NRF_ERROR_NO_MEM after the last.  A line freed after alloc has tested it is
\* not tested again.
C19_AllocTakesFirstFreeLineTested ==
    [][/\ OneHolder(p_swi', m_swi_handlers')
       /\ \A c \in Context :
             (swi_op'.ctx = c /\ swi_op'.name \in {"alloc", "alloc_next"}) =>
                 LET i == alloc_i[c]
                     k == i - SWI_START_NUMBER(swiDisabled)
                 IN /\ i \in Line
                    /\ i >= SWI_START_NUMBER(swiDisabled)
                    /\ alloc_i'[c] \in {NotInAlloc, i + 1}
                    /\ IF i \in FreeLines(m_swi_handlers)
                       THEN /\ swi_op' = SwiLog("alloc", c, i, NRF_SUCCESS, {})
                            /\ m_swi_handlers[k] = NULL
                            /\ m_swi_handlers' = [m_swi_handlers EXCEPT ![k] = c]
                            /\ p_swi' = [p_swi EXCEPT ![c] = i]
                            /\ alloc_i'[c] = NotInAlloc
                       ELSE /\ UNCHANGED <<p_swi, m_swi_handlers>>
                            /\ IF i + 1 < SWI_COUNT
                               THEN swi_op'.name = "alloc_next" /\ alloc_i'[c] = i + 1
                               ELSE /\ swi_op' = SwiLog("alloc", c, NRF_SWI_UNALLOCATED,
                                                         NRF_ERROR_NO_MEM, {})
                                    /\ alloc_i'[c] = NotInAlloc
       /\ \A c \in Context :
             (swi_op'.ctx = c /\ swi_op'.name = "alloc_enter") =>
                 (alloc_i'[c] = SWI_START_NUMBER(swiDisabled) /\ UNCHANGED <<p_swi, m_swi_handlers>>)]_swi_vars

\* an alloc has returned a line while a lower available line is unallocated:
\* the lower line was freed after the alloc had tested it
C19_Witness ==
    /\ swi_op.name = "alloc"
    /\ swi_op.ret = NRF_SUCCESS
    /\ p_swi[swi_op.ctx] = swi_op.swi
    /\ \E n \in FreeLines(m_swi_handlers) : n < swi_op.swi

\* C20: the handler of a line is called only with flags that were triggered
\* since the line was last allocated; flags triggered before a free or an
\* uninit are not passed to the handler of a later allocation.
C20_HandlerGetsOnlyOwnFlags ==
    swi_op.name = "handler" => swi_op.flags \subseteq triggered[swi_op.swi]

====
